---- MODULE Spec2Model ----
(***************************************************************************)
(* The Healthie session-automation engine: the process-wide browser        *)
(* session (integration/healthie.py), the patient finder, the appointment  *)
(* scheduler and the Pipecat action adapters (adapters/pipecat/healthie.py)*)
(* as one state machine.  A call is a coroutine; pc is its position, and   *)
(* one action is one stretch of code between two suspension points.  The   *)
(* portal and the mailbox are the environment: every wait, click and read  *)
(* may succeed or fail, and the portal decides what it shows.              *)
(*                                                                         *)
(* The entry points are login_to_healthie (awaited by the tests' fixture), *)
(* the two actions find_patient_direct and create_appointment_direct, and  *)
(* close_healthie_session.  find_patient and create_appointment run inside *)
(* the actions; the states "fd_result", "fd_except", "cd_result" and       *)
(* "cd_except" are the moments they hand their result to their caller.     *)
(***************************************************************************)
EXTENDS Integers, Sequences, FiniteSets, TLC

\* Bound: how many browsers the process launches in one run.
MaxLaunch == 2

\* Bound: how many result rows the portal shows for one search.
MaxRows == 2

\* Bound: how many login_to_healthie calls are in flight together.
MaxTasks == 2

\* The calls in flight together.
Tasks == 1..MaxTasks

\* Python's None, for the string-valued places (environment, exceptions).
None == "None"

\* A handle (_browser, _page, _playwright) that refers to nothing.
Null == 0

\* What os.environ.get can give for a credential: unset, empty, or a value.
EnvValues == {None, "", "set"}

\* The passcodes the mailbox can deliver (six decimal digits each).
Codes == {<<8, 4, 2, 9, 1, 3>>, <<0, 0, 7, 7, 0, 1>>}

\* The subject filter login_to_healthie passes to get_otp.
SignInSubject == "Sign-in verification code"

\* The names and dates of birth callers ask for, and the portal's clients.
Names == {"Jane Doe", "John Roe"}
Dobs == {"1990-01-05", "1985-03-02"}
Patients == [name : Names, date_of_birth : Dobs]

\* The dates of birth callers pass to the find_patient action: the canonical
\* form, or one of the other forms DATE_INPUT_FORMATS lists.
DobInputs == Dobs \cup {"Jan 5, 1990"}

\* _parse_flexible_date: the first of "%Y-%m-%d", "%b %d, %Y", "%B %d, %Y" that
\* parses the value gives <<year, month, day>>; none raises ValueError.
_parse_flexible_date(value) ==
    CASE value = "1990-01-05" -> [ok |-> TRUE, date |-> <<1990, 1, 5>>]
      [] value = "1985-03-02" -> [ok |-> TRUE, date |-> <<1985, 3, 2>>]
      [] value = "Jan 5, 1990" -> [ok |-> TRUE, date |-> <<1990, 1, 5>>]
      [] value = "January 5, 1990" -> [ok |-> TRUE, date |-> <<1990, 1, 5>>]
      [] OTHER -> [ok |-> FALSE, date |-> <<>>]

\* PatientAppointmentRequest.normalized_dob: the parsed date written as
\* "%Y-%m-%d".  find_patient_direct does not call it.
normalized_dob(value) ==
    LET parsed == _parse_flexible_date(value) IN
    CASE parsed.date = <<1990, 1, 5>> -> "1990-01-05"
      [] parsed.date = <<1985, 3, 2>> -> "1985-03-02"
      [] OTHER -> "ValueError"

\* The portal-assigned identifier of a client.
PatientId(p) ==
    CASE p.name = "Jane Doe" /\ p.date_of_birth = "1990-01-05" -> "13632834"
      [] p.name = "Jane Doe" /\ p.date_of_birth = "1985-03-02" -> "13632835"
      [] p.name = "John Roe" /\ p.date_of_birth = "1990-01-05" -> "13632836"
      [] OTHER -> "13632837"

\* Instants are <<year, month, day, minute of the day>>.
Years == {2026, 2027}
Months == {1, 12}
Days == {15}
Minutes == {600, 960}
Instants == {<<y, m, d, t>> : y \in Years, m \in Months, d \in Days, t \in Minutes}

\* The instants datetime.now() gives in the runs explored.
Clock == {<<2026, 12, 15, 600>>, <<2027, 1, 15, 960>>}

\* The date and time strings callers pass: a format and the fields written in it.
DateFormat == "%Y-%m-%d"
TimeFormat == "%I:%M %p"
DateStrings ==
    [fmt : {DateFormat}, y : Years, m : Months, d : Days]
        \cup {[fmt |-> "%m-%d-%Y", y |-> 2026, m |-> 1, d |-> 15]}
TimeStrings ==
    [fmt : {TimeFormat}, t : Minutes] \cup {[fmt |-> "%H:%M", t |-> 600]}

\* The identifiers callers book for.
PatientIds == {"13632834"}

\* The text of the portal's double-booking flash.
ConflictMessage == "You have another event scheduled at this time"

\* The value a call returns when it returns None.
NoneVal == [kind |-> "None"]

VARIABLES
    _browser, _page, _playwright,       \* module-level handles, healthie.py 36-38
    HEALTHIE_EMAIL, HEALTHIE_PASSWORD,  \* portal credentials in the environment
    EMAIL_ACCOUNT, EMAIL_PASSWORD,      \* mailbox credentials, read at import
    started, launched,                  \* drivers started, browsers launched so far
    runningDrivers, openBrowsers,       \* started and not stopped; launched and not closed
    url,                                \* the location of each page a handle can reach
    booked,                             \* the portal's appointments
    session,                            \* the page the last successful login returned, Null after a close
    pc, op, arg,                        \* the call in flight: position, entry point, arguments
    page,                               \* the call's local page (the value login returned)
    contVisible,                        \* outcome of the wait for the continue control
    otpCalls, otpSubject, otp_code,     \* calls of get_otp in this login, its filter, its result
    otc,                                \* digits typed so far into otc-input-0..5
    urlChecked,                         \* the login read page.url and compared it
    uiFailed,                           \* a step failed after the session was acquired
    rows, opened,                       \* search result rows; the row whose profile was opened
    now, appointment_datetime,          \* create_appointment's locals
    calendar, clicks,                   \* the month the date picker shows; next-month clicks
    picked,                             \* the slot selected in the dialog
    flash,                              \* the flash text read at the inspection
    submits,                            \* clicks of the dialog's primary button in this call
    created,                            \* the portal created an appointment in this call
    ret, exc,                           \* what the inner call handed to its caller: value, exception
    escaped, payloads,                  \* the exception that left the entry point; payloads delivered
    recorded,                           \* the arguments of the create_appointment calls that returned a record
    mail,                               \* get_otp: the IMAP connection
    inbox,                              \* the mailbox: its messages in arrival order
    timeout, subject_filter,            \* get_otp's parameters
    elapsed,                            \* time.time() - start_time, in polling intervals
    gpc,                                \* get_otp's position
    mail_ids, msg,                      \* the last search's result; the message fetched
    otp,                                \* how get_otp ended: a code or an exception
    diff_now, diff_target,              \* calculate_diff_months: its arguments
    total_months, dpc,                  \* its result; whether it was called and has returned
    tpc,                                \* interleaved logins: the position of each call
    own,                                \* the page each call opened
    stepsOn,                            \* the pages each call's login steps acted on
    got,                                \* the page returned to each call
    context,                            \* the local "context" of each call: its browser
    filled,                             \* how many passcode inputs each call has filled
    pages                               \* pages opened so far

globals == <<_browser, _page, _playwright>>
retriever == <<mail, inbox, timeout, subject_filter, elapsed, gpc, mail_ids, msg, otp>>
calc == <<diff_now, diff_target, total_months, dpc>>
tasks == <<tpc, own, stepsOn, got, context, filled, pages>>
env == <<HEALTHIE_EMAIL, HEALTHIE_PASSWORD, EMAIL_ACCOUNT, EMAIL_PASSWORD>>
world == <<started, launched, runningDrivers, openBrowsers, url, booked>>
login == <<contVisible, otpCalls, otpSubject, otp_code, otc, urlChecked>>
finder == <<rows, opened>>
sched == <<now, appointment_datetime, calendar, clicks, picked, flash, submits, created>>
outcome == <<ret, exc, escaped, payloads>>
vars == <<globals, env, recorded, retriever, calc, tasks, world, session, pc, op, arg,
          page, login, uiFailed, finder, sched, outcome>>

Loaded ==
    /\ _browser = Null /\ _page = Null /\ _playwright = Null
    /\ HEALTHIE_EMAIL \in EnvValues /\ HEALTHIE_PASSWORD \in EnvValues
    /\ EMAIL_ACCOUNT \in {None, "set"} /\ EMAIL_PASSWORD \in {None, "set"}
    /\ started = 0 /\ launched = 0
    /\ runningDrivers = {} /\ openBrowsers = {}
    /\ url = [p \in 1..MaxLaunch |-> "none"]
    /\ booked = {}
    /\ session = Null
    /\ pc = "idle" /\ op = None /\ arg = NoneVal
    /\ page = Null
    /\ contVisible = None
    /\ otpCalls = 0 /\ otpSubject = None /\ otp_code = <<>> /\ otc = <<>>
    /\ urlChecked = FALSE
    /\ uiFailed = FALSE
    /\ rows = <<>> /\ opened = NoneVal
    /\ now = <<>> /\ appointment_datetime = <<>>
    /\ calendar = <<>> /\ clicks = 0 /\ picked = <<>> /\ flash = None
    /\ submits = 0 /\ created = FALSE
    /\ ret = NoneVal /\ exc = None /\ escaped = None /\ payloads = <<>>
    /\ recorded = {}
    /\ mail = "none" /\ inbox = <<>>
    /\ timeout = 0 /\ subject_filter = None
    /\ elapsed = 0
    /\ gpc = "idle"
    /\ mail_ids = <<>> /\ msg = NoneVal
    /\ otp = NoneVal
    /\ tpc = [c \in Tasks |-> "idle"]
    /\ own = [c \in Tasks |-> Null]
    /\ stepsOn = [c \in Tasks |-> {}]
    /\ got = [c \in Tasks |-> Null]
    /\ context = [c \in Tasks |-> Null]
    /\ filled = [c \in Tasks |-> 0]
    /\ pages = 0

\* The state after the modules are loaded; calculate_diff_months is not in a call.
Init ==
    /\ Loaded
    /\ diff_now = <<>> /\ diff_target = <<>> /\ total_months = 0 /\ dpc = "idle"

(***************************************************************************)
(* Entry points                                                            *)
(***************************************************************************)

\* The locals of a call that has not begun (or has ended).
FreshLogin ==
    /\ contVisible' = None
    /\ otpCalls' = 0 /\ otpSubject' = None /\ otp_code' = <<>> /\ otc' = <<>>
    /\ urlChecked' = FALSE

FreshLocals ==
    /\ page' = Null
    /\ uiFailed' = FALSE
    /\ rows' = <<>> /\ opened' = NoneVal
    /\ now' = <<>> /\ appointment_datetime' = <<>>
    /\ calendar' = <<>> /\ clicks' = 0 /\ picked' = <<>> /\ flash' = None
    /\ submits' = 0 /\ created' = FALSE

\* A call begins: its locals are fresh, the last call's outcome is forgotten.
StartCall(o, a) ==
    /\ pc = "idle"
    /\ launched < MaxLaunch
    /\ op' = o /\ arg' = a
    /\ pc' = "login"
    /\ FreshLogin
    /\ FreshLocals
    /\ ret' = NoneVal /\ exc' = None /\ escaped' = None /\ payloads' = <<>>
    /\ UNCHANGED <<globals, env, recorded, retriever, calc, tasks, world, session>>

\* The tests' fixture (or any caller) awaits login_to_healthie().
CallLoginToHealthie == StartCall("login_to_healthie", NoneVal)

\* The find_patient action: find_patient_direct(params, name, date_of_birth),
\* which awaits find_patient(name, date_of_birth) with the date of birth as
\* the caller wrote it (lines 94-98).
CallFindPatientDirect ==
    \E n \in Names, d \in DobInputs :
        StartCall("find_patient_direct", [name |-> n, date_of_birth |-> d])

\* The create_appointment action: create_appointment_direct(params, ...),
\* which awaits create_appointment(patient_id, date_str, time_str).
CallCreateAppointmentDirect ==
    \E id \in PatientIds, d \in DateStrings, t \in TimeStrings :
        StartCall("create_appointment_direct",
                  [patient_id |-> id, date_str |-> d, time_str |-> t])

(***************************************************************************)
(* login_to_healthie                                                       *)
(***************************************************************************)

\* An exception leaves login_to_healthie.  find_patient and create_appointment
\* await it outside their try blocks, so it leaves them too.
LoginRaise(e) ==
    /\ ret' = NoneVal
    /\ payloads' = payloads
    /\ CASE op = "find_patient_direct" ->
                pc' = "fd_except" /\ exc' = e /\ escaped' = escaped
         [] op = "create_appointment_direct" ->
                pc' = "cd_except" /\ exc' = e /\ escaped' = escaped
         [] OTHER ->
                pc' = "idle" /\ exc' = e /\ escaped' = e

\* login_to_healthie returns _page: to its caller's local, or to the fixture.
\* Its own locals end with it when the caller goes on (cv and chk are what
\* the returning step leaves in contVisible and urlChecked).
LoginReturn(cv, chk) ==
    /\ page' = _page
    /\ session' = _page
    /\ UNCHANGED <<exc, escaped, payloads>>
    /\ IF op = "login_to_healthie"
       THEN /\ pc' = "idle"
            /\ ret' = [kind |-> "page", page |-> _page]
            /\ contVisible' = cv /\ urlChecked' = chk
            /\ UNCHANGED <<otpCalls, otpSubject, otp_code, otc>>
       ELSE /\ pc' = IF op = "find_patient_direct" THEN "f_clients" ELSE "c_search"
            /\ ret' = ret
            /\ FreshLogin

\* A credentials check that tests for None only: an empty string passes.
FalsyNoneOnly(x) == x = None

\* Python's "not x" for a credential read from the environment.
Falsy(x) == x = None \/ x = ""

\* Lines 60-66: the credentials check.  (The reuse of a live _page, lines
\* 68-70, is commented out in the source, so nothing else is checked here.)
LoginCheckCredentials ==
    /\ pc = "login"
    /\ IF Falsy(HEALTHIE_EMAIL) \/ Falsy(HEALTHIE_PASSWORD)
       THEN LoginRaise("ValueError")
       ELSE pc' = "l_start" /\ UNCHANGED outcome
    /\ UNCHANGED <<globals, env, recorded, retriever, calc, tasks, world, session, op, arg,
                   page, login, uiFailed, finder, sched>>

\* Line 73: a new driver is started and stored in _playwright.
LoginStartPlaywright ==
    /\ pc = "l_start"
    /\ started' = started + 1
    /\ _playwright' = started + 1
    /\ runningDrivers' = runningDrivers \cup {started + 1}
    /\ pc' = "l_launch"
    /\ UNCHANGED <<_browser, _page, env, recorded, retriever, calc, tasks, launched,
                   openBrowsers, url, booked, session, op, arg, page, login, uiFailed,
                   finder, sched, outcome>>

\* Line 74: a new browser is launched and stored in _browser.
LoginLaunchBrowser ==
    /\ pc = "l_launch"
    /\ launched' = launched + 1
    /\ _browser' = launched + 1
    /\ openBrowsers' = openBrowsers \cup {launched + 1}
    /\ pc' = "l_page"
    /\ UNCHANGED <<_page, _playwright, env, recorded, retriever, calc, tasks, started,
                   runningDrivers, url, booked, session, op, arg, page, login, uiFailed,
                   finder, sched, outcome>>

\* Lines 76-78: a page of the browser in _browser is opened and stored in
\* _page.  No handle reaches the page _page held before: its location is
\* dropped from url.
LoginNewPage ==
    /\ pc = "l_page"
    /\ _page' = _browser
    /\ url' = [p \in DOMAIN url |-> IF p = _browser THEN "about:blank" ELSE "none"]
    /\ pc' = "l_goto"
    /\ UNCHANGED <<_browser, _playwright, env, recorded, retriever, calc, tasks, started,
                   launched, runningDrivers, openBrowsers, booked, session, op, arg, page,
                   login, uiFailed, finder, sched, outcome>>

\* Lines 80-82: _page.goto(sign-in page).
LoginGoto ==
    /\ pc = "l_goto"
    /\ \/ /\ url' = [url EXCEPT ![_page] = "sign_in"]
          /\ pc' = "l_email"
          /\ UNCHANGED outcome
       \/ /\ LoginRaise("TimeoutError")
          /\ UNCHANGED url
    /\ UNCHANGED <<globals, env, recorded, retriever, calc, tasks, started, launched,
                   runningDrivers, openBrowsers, booked, session, op, arg, page, login,
                   uiFailed, finder, sched>>

\* A login step that waits for a control and acts on it: it succeeds, or the
\* wait (or the action) raises and the exception leaves login_to_healthie.
LoginUiStep(at, next) ==
    /\ pc = at
    /\ \/ pc' = next /\ UNCHANGED outcome
       \/ LoginRaise("TimeoutError")
    /\ UNCHANGED <<globals, env, recorded, retriever, calc, tasks, world, session, op, arg,
                   page, login, uiFailed, finder, sched>>

\* Lines 85-89: wait for the identifier input, fill the email.
LoginFillEmail == LoginUiStep("l_email", "l_submit1")

\* Lines 91-93: wait for the Log In button, click.
LoginSubmitEmail == LoginUiStep("l_submit1", "l_password")

\* Lines 96-98: wait for the password input, fill the password.
LoginFillPassword == LoginUiStep("l_password", "l_submit2")

\* Lines 101-103: wait for the Log In button, click.
LoginSubmitPassword == LoginUiStep("l_submit2", "l_continue")

\* Lines 105-106: continue_button.wait_for(visible, 3000).  It is not inside a
\* try: a control that does not show within the bound raises TimeoutError.
LoginWaitContinue ==
    /\ pc = "l_continue"
    /\ \/ /\ contVisible' = "visible"
          /\ pc' = "l_isvisible"
          /\ UNCHANGED outcome
       \/ /\ contVisible' = "timeout"
          /\ LoginRaise("TimeoutError")
    /\ UNCHANGED <<globals, env, recorded, retriever, calc, tasks, world, session, op, arg,
                   page, otpCalls, otpSubject, otp_code, otc, urlChecked, uiFailed, finder,
                   sched>>

\* Lines 107-109: is_visible(); when true, click and return _page at once.
\* The control may be gone again when is_visible() reads it: then the
\* code falls through to the passcode steps.
LoginContinue ==
    /\ pc = "l_isvisible"
    /\ \/ /\ \E to \in {"sign_in", "app"} : url' = [url EXCEPT ![_page] = to]
          /\ LoginReturn("clicked", urlChecked)
       \/ /\ LoginRaise("TimeoutError")
          /\ UNCHANGED <<url, page, session, login>>
       \/ /\ contVisible' = "gone"
          /\ pc' = "l_otp"
          /\ UNCHANGED <<url, page, session, outcome,
                         otpCalls, otpSubject, otp_code, otc, urlChecked>>
    /\ UNCHANGED <<globals, env, recorded, retriever, calc, tasks, started, launched,
                   runningDrivers, openBrowsers, booked, op, arg, uiFailed, finder, sched>>

\* Lines 116-118: sleep, then get_otp(subject_filter=...).  get_otp logs into
\* the mailbox with EMAIL_ACCOUNT and EMAIL_PASSWORD; it returns a code or
\* raises TimeoutError; with a credential missing its IMAP login raises.
LoginGetOtp ==
    /\ pc = "l_otp"
    /\ otpCalls' = otpCalls + 1
    /\ otpSubject' = SignInSubject
    /\ IF EMAIL_ACCOUNT = None \/ EMAIL_PASSWORD = None
       THEN /\ LoginRaise("MailLoginError")
            /\ UNCHANGED otp_code
       ELSE \/ /\ \E code \in Codes : otp_code' = code
               /\ pc' = "l_digits"
               /\ UNCHANGED outcome
            \/ /\ LoginRaise("builtins.TimeoutError")
               /\ UNCHANGED otp_code
    /\ UNCHANGED <<globals, env, recorded, retriever, calc, tasks, world, session, op, arg,
                   page, contVisible, otc, urlChecked, uiFailed, finder, sched>>

\* Lines 120-121: for i, digit in enumerate(otp_code): fill otc-input-i.
\* Len(otc) is i.  After the last digit the portal may leave the sign-in page.
LoginFillDigit ==
    /\ pc = "l_digits"
    /\ Len(otc) < Len(otp_code)
    /\ \/ /\ otc' = Append(otc, otp_code[Len(otc) + 1])
          /\ IF Len(otc) + 1 = Len(otp_code)
             THEN \E to \in {"sign_in", "app"} : url' = [url EXCEPT ![_page] = to]
             ELSE UNCHANGED url
          /\ UNCHANGED <<pc, outcome>>
       \/ /\ LoginRaise("TimeoutError")
          /\ UNCHANGED <<otc, url>>
    /\ UNCHANGED <<globals, env, recorded, retriever, calc, tasks, started, launched,
                   runningDrivers, openBrowsers, booked, session, op, arg, page,
                   contVisible, otpCalls, otpSubject, otp_code, urlChecked, uiFailed,
                   finder, sched>>

\* Lines 124-129: the loop is over; "sign_in" in _page.url raises, else return.
LoginCheckUrl ==
    /\ pc = "l_digits"
    /\ Len(otc) = Len(otp_code)
    /\ IF url[_page] = "sign_in"
       THEN /\ LoginRaise("Exception")
            /\ urlChecked' = TRUE
            /\ UNCHANGED <<page, session, contVisible, otpCalls, otpSubject, otp_code, otc>>
       ELSE LoginReturn(contVisible, TRUE)
    /\ UNCHANGED <<globals, env, recorded, retriever, calc, tasks, world, op, arg,
                   uiFailed, finder, sched>>

(***************************************************************************)
(* find_patient                                                            *)
(***************************************************************************)

\* find_patient returns v (None or the record) to find_patient_direct.
FindReturn(v) ==
    /\ pc' = "fd_result"
    /\ ret' = v
    /\ UNCHANGED <<exc, escaped, payloads>>

\* An except clause that logs and re-raises instead of returning None.
FindExceptReraises(e) ==
    /\ pc' = "fd_except"
    /\ exc' = e
    /\ UNCHANGED <<ret, escaped, payloads>>

\* Lines 254-256: except Exception: log and return None.
FindExcept(e) == FindReturn(NoneVal)

\* A step inside find_patient's try block fails.
FindFail ==
    /\ uiFailed' = TRUE
    /\ FindExcept("TimeoutError")

\* A step of find_patient that is tried again when its wait times out.
FindUiStepRetries(at, next) ==
    /\ pc = at
    /\ \/ pc' = next /\ UNCHANGED <<outcome, uiFailed>>
       \/ uiFailed' = TRUE /\ UNCHANGED <<pc, outcome>>
    /\ UNCHANGED <<globals, env, recorded, retriever, calc, tasks, world, session, op, arg,
                   page, login, finder, sched>>

\* A step of find_patient that waits for a control and acts on it.
FindUiStep(at, next) ==
    /\ pc = at
    /\ \/ pc' = next /\ UNCHANGED <<outcome, uiFailed>>
       \/ FindFail
    /\ UNCHANGED <<globals, env, recorded, retriever, calc, tasks, world, session, op, arg,
                   page, login, finder, sched>>

\* The rows the portal can show for a name: clients of that name, any birth dates.
SearchResults(name) ==
    {r \in UNION {[1..n -> Patients] : n \in 0..MaxRows} :
        \A i \in DOMAIN r : r[i].name = name}

\* Lines 165-167: wait for the Clients link, click.
FindClients == FindUiStep("f_clients", "f_search")

\* Lines 172-175: fill the search input with the name, press Enter, wait.
FindSearch ==
    /\ pc = "f_search"
    /\ \/ /\ rows' \in SearchResults(arg.name)
          /\ pc' = "f_noresults"
          /\ UNCHANGED <<outcome, uiFailed, opened>>
       \/ /\ FindFail
          /\ UNCHANGED finder
    /\ UNCHANGED <<globals, env, recorded, retriever, calc, tasks, world, session, op, arg,
                   page, login, sched>>

\* Lines 180-186: the "No results" text shows within 2 s (return None), or
\* the wait times out and the search goes on.
FindNoResults ==
    /\ pc = "f_noresults"
    /\ \/ /\ rows = <<>>
          /\ FindReturn(NoneVal)
          /\ UNCHANGED uiFailed
       \/ /\ pc' = "f_table"
          /\ UNCHANGED <<outcome, uiFailed>>
    /\ UNCHANGED <<globals, env, recorded, retriever, calc, tasks, world, session, op, arg,
                   page, login, finder, sched>>

\* A table wait whose timeout is swallowed ("pass"): the search goes on to
\* count the rows.
FindWaitTableTimeoutIgnored ==
    /\ pc = "f_table"
    /\ \/ /\ pc' = "f_count"
          /\ UNCHANGED <<outcome, uiFailed>>
       \/ /\ uiFailed' = TRUE
          /\ pc' = "f_count"
          /\ UNCHANGED outcome
    /\ UNCHANGED <<globals, env, recorded, retriever, calc, tasks, world, session, op, arg,
                   page, login, finder, sched>>

\* Lines 191-201: wait for the results container and its table; a timeout
\* returns None.
FindWaitTable ==
    /\ pc = "f_table"
    /\ \/ /\ pc' = "f_count"
          /\ UNCHANGED <<outcome, uiFailed>>
       \/ /\ uiFailed' = TRUE
          /\ FindReturn(NoneVal)
    /\ UNCHANGED <<globals, env, recorded, retriever, calc, tasks, world, session, op, arg,
                   page, login, finder, sched>>

\* Lines 206-217: count the rows; none returns None.
FindCountRows ==
    /\ pc = "f_count"
    /\ \/ /\ Len(rows) = 0
          /\ FindReturn(NoneVal)
          /\ UNCHANGED uiFailed
       \/ /\ Len(rows) > 0
          /\ pc' = "f_open"
          /\ UNCHANGED <<outcome, uiFailed>>
       \/ FindFail
    /\ UNCHANGED <<globals, env, recorded, retriever, calc, tasks, world, session, op, arg,
                   page, login, finder, sched>>

\* A finder that opens the last row of the results instead of the first.
FindOpenLast ==
    /\ pc = "f_open"
    /\ \/ /\ opened' = rows[Len(rows)]
          /\ pc' = "f_section"
          /\ UNCHANGED <<outcome, uiFailed>>
       \/ /\ FindFail
          /\ UNCHANGED opened
    /\ UNCHANGED <<globals, env, recorded, retriever, calc, tasks, world, session, op, arg,
                   page, login, rows, sched>>

\* Lines 222-228: user_rows.nth(0): wait for it and its link, click the link.
FindOpenFirst ==
    /\ pc = "f_open"
    /\ \/ /\ opened' = rows[1]
          /\ pc' = "f_section"
          /\ UNCHANGED <<outcome, uiFailed>>
       \/ /\ FindFail
          /\ UNCHANGED opened
    /\ UNCHANGED <<globals, env, recorded, retriever, calc, tasks, world, session, op, arg,
                   page, login, rows, sched>>

\* Lines 233-237: open the basic information section, wait for the panel.
FindOpenSection == FindUiStep("f_section", "f_extract")

\* Lines 258-271: the record, from the extracted texts and the arguments.
UserData(idText, dobText) ==
    [kind |-> "patient",
     patient_id |-> idText,
     name |-> arg.name,
     date_of_birth |-> IF dobText # "" THEN dobText ELSE arg.date_of_birth]

\* Lines 243-275: read the fields of the opened profile (a label may be
\* empty) and return the record.
FindExtract ==
    /\ pc = "f_extract"
    /\ \/ /\ \E idText \in {PatientId(opened), ""}, dobText \in {opened.date_of_birth, ""} :
                FindReturn(UserData(idText, dobText))
          /\ UNCHANGED uiFailed
       \/ FindFail
    /\ UNCHANGED <<globals, env, recorded, retriever, calc, tasks, world, session, op, arg,
                   page, login, finder, sched>>

(***************************************************************************)
(* Date helpers (utils/date_helpers.py)                                    *)
(***************************************************************************)

\* datetime's order.
Before(a, b) ==
    \/ a[1] < b[1]
    \/ a[1] = b[1] /\ a[2] < b[2]
    \/ a[1] = b[1] /\ a[2] = b[2] /\ a[3] < b[3]
    \/ a[1] = b[1] /\ a[2] = b[2] /\ a[3] = b[3] /\ a[4] < b[4]

\* convert_to_datetime: strptime(date + " " + time, "%Y-%m-%d %I:%M %p");
\* a string in another format raises ValueError.
convert_to_datetime(date, time) ==
    IF date.fmt = DateFormat /\ time.fmt = TimeFormat
    THEN [ok |-> TRUE, dt |-> <<date.y, date.m, date.d, time.t>>]
    ELSE [ok |-> FALSE, dt |-> <<>>]

\* A month distance that forgets the years.
calculate_diff_months_no_years(n, target_datetime) ==
    IF Before(target_datetime, n)
    THEN 0
    ELSE target_datetime[2] - n[2]

\* A month distance without the guard of line 52.
calculate_diff_months_unguarded(n, target_datetime) ==
    (target_datetime[1] - n[1]) * 12 + (target_datetime[2] - n[2])

\* calculate_diff_months.
calculate_diff_months(n, target_datetime) ==
    IF Before(target_datetime, n)
    THEN 0
    ELSE (target_datetime[1] - n[1]) * 12 + (target_datetime[2] - n[2])

\* The month the date picker shows after one click on "next month".
NextMonth(ym) == IF ym[2] = 12 THEN <<ym[1] + 1, 1>> ELSE <<ym[1], ym[2] + 1>>

(***************************************************************************)
(* create_appointment                                                      *)
(***************************************************************************)

\* create_appointment returns v (None or the record) to create_appointment_direct.
CreateReturn(v) ==
    /\ pc' = "cd_result"
    /\ ret' = v
    /\ UNCHANGED <<exc, escaped, payloads>>

\* An except clause of create_appointment that logs and re-raises.
CreateExceptReraises(e) ==
    /\ pc' = "cd_except"
    /\ exc' = e
    /\ UNCHANGED <<ret, escaped, payloads>>

\* Lines 451-453: except Exception: log and return None.
CreateExcept(e) == CreateReturn(NoneVal)

\* A step inside create_appointment's try block fails.
CreateFail ==
    /\ uiFailed' = TRUE
    /\ CreateExcept("TimeoutError")

\* A step of create_appointment that waits for a control and acts on it.
CreateUiStep(at, next) ==
    /\ pc = at
    /\ \/ pc' = next /\ UNCHANGED <<outcome, uiFailed>>
       \/ CreateFail
    /\ UNCHANGED <<globals, env, recorded, retriever, calc, tasks, world, session, op, arg,
                   page, login, finder, sched>>

\* Lines 317-320: fill the header search with the identifier, press Enter.
CreateSearch == CreateUiStep("c_search", "c_profile")

\* Lines 322-324: wait for "view profile", click.
CreateViewProfile == CreateUiStep("c_profile", "c_add")

\* Lines 329-338: click "add appointment", wait for the dialog.
CreateOpenDialog == CreateUiStep("c_add", "c_type")

\* Lines 343-346: choose "Initial Consultation - 60 Minutes".
CreateSelectType == CreateUiStep("c_type", "c_validate")

\* A validation that parses the target and never rejects it for being past.
CreateValidateNoPastCheck ==
    /\ pc = "c_validate"
    /\ \E n \in Clock :
        LET parsed == convert_to_datetime(arg.date_str, arg.time_str) IN
        /\ now' = n
        /\ IF ~parsed.ok
           THEN /\ uiFailed' = TRUE
                /\ CreateExcept("ValueError")
                /\ UNCHANGED appointment_datetime
           ELSE /\ appointment_datetime' = parsed.dt
                /\ UNCHANGED uiFailed
                /\ pc' = "c_time" /\ UNCHANGED outcome
    /\ UNCHANGED <<globals, env, recorded, retriever, calc, tasks, world, session, op, arg,
                   page, login, finder, calendar, clicks, picked, flash, submits, created>>

\* Lines 351-357: now = datetime.now(); parse the target; a target before now
\* returns None.  A ValueError of the parse is caught by the except clause.
CreateValidate ==
    /\ pc = "c_validate"
    /\ \E n \in Clock :
        LET parsed == convert_to_datetime(arg.date_str, arg.time_str) IN
        /\ now' = n
        /\ IF ~parsed.ok
           THEN /\ uiFailed' = TRUE
                /\ CreateExcept("ValueError")
                /\ UNCHANGED appointment_datetime
           ELSE /\ appointment_datetime' = parsed.dt
                /\ UNCHANGED uiFailed
                /\ IF Before(parsed.dt, n)
                   THEN CreateReturn(NoneVal)
                   ELSE pc' = "c_time" /\ UNCHANGED outcome
    /\ UNCHANGED <<globals, env, recorded, retriever, calc, tasks, world, session, op, arg,
                   page, login, finder, calendar, clicks, picked, flash, submits, created>>

\* Lines 362-368: open the time picker, click the entry with the time text.
CreatePickTime == CreateUiStep("c_time", "c_calendar")

\* Line 370: click the start-date box; the date picker opens on the current month.
CreateOpenCalendar ==
    /\ pc = "c_calendar"
    /\ \/ /\ calendar' = <<now[1], now[2]>>
          /\ pc' = "c_months"
          /\ UNCHANGED <<outcome, uiFailed>>
       \/ /\ CreateFail
          /\ UNCHANGED calendar
    /\ UNCHANGED <<globals, env, recorded, retriever, calc, tasks, world, session, op, arg,
                   page, login, finder, now, appointment_datetime, clicks, picked, flash,
                   submits, created>>

\* Lines 372-374: for _ in range(total_months): click "next month".
CreateNextMonth ==
    /\ pc = "c_months"
    /\ clicks < calculate_diff_months(now, appointment_datetime)
    /\ \/ /\ calendar' = NextMonth(calendar)
          /\ clicks' = clicks + 1
          /\ UNCHANGED <<pc, outcome, uiFailed>>
       \/ /\ CreateFail
          /\ UNCHANGED <<calendar, clicks>>
    /\ UNCHANGED <<globals, env, recorded, retriever, calc, tasks, world, session, op, arg,
                   page, login, finder, now, appointment_datetime, picked, flash, submits,
                   created>>

\* Lines 376-378: click the day button "Choose <weekday, month, ordinal day>".
\* The button exists when the picker shows the target's month.
CreatePickDay ==
    /\ pc = "c_months"
    /\ clicks = calculate_diff_months(now, appointment_datetime)
    /\ \/ /\ calendar[2] = appointment_datetime[2]
          /\ picked' = <<calendar[1], calendar[2],
                         appointment_datetime[3], appointment_datetime[4]>>
          /\ pc' = "c_flash"
          /\ UNCHANGED <<outcome, uiFailed>>
       \/ /\ CreateFail
          /\ UNCHANGED picked
    /\ UNCHANGED <<globals, env, recorded, retriever, calc, tasks, world, session, op, arg,
                   page, login, finder, now, appointment_datetime, calendar, clicks, flash,
                   submits, created>>

\* What the dialog's flash region can show when it is inspected: nothing, the
\* double-booking message (only for a taken slot), or another message.
FlashTexts ==
    {None, "Something went wrong"}
        \cup (IF [patient_id |-> arg.patient_id, slot |-> picked] \in booked
              THEN {ConflictMessage} ELSE {})

\* An inspection that reads the flash and goes on to the submit whatever it says.
CreateInspectFlashIgnored ==
    /\ pc = "c_flash"
    /\ \/ /\ \E text \in FlashTexts :
                /\ flash' = text
                /\ pc' = "c_submit" /\ UNCHANGED outcome
          /\ UNCHANGED uiFailed
       \/ /\ CreateFail
          /\ UNCHANGED flash
    /\ UNCHANGED <<globals, env, recorded, retriever, calc, tasks, world, session, op, arg,
                   page, login, finder, now, appointment_datetime, calendar, clicks,
                   picked, submits, created>>

\* Lines 383-394: after a second, read the flash; the double-booking text
\* returns None.
CreateInspectFlash ==
    /\ pc = "c_flash"
    /\ \/ /\ \E text \in FlashTexts :
                /\ flash' = text
                /\ IF text = ConflictMessage
                   THEN CreateReturn(NoneVal)
                   ELSE pc' = "c_submit" /\ UNCHANGED outcome
          /\ UNCHANGED uiFailed
       \/ /\ CreateFail
          /\ UNCHANGED flash
    /\ UNCHANGED <<globals, env, recorded, retriever, calc, tasks, world, session, op, arg,
                   page, login, finder, now, appointment_datetime, calendar, clicks,
                   picked, submits, created>>

\* Lines 399-401: click the dialog's primary button.  The portal books the
\* selected slot unless it is taken (or it refuses for a reason of its own).
CreateSubmit ==
    /\ pc = "c_submit"
    /\ \/ /\ submits' = submits + 1
          /\ pc' = "c_tabs"
          /\ LET appt == [patient_id |-> arg.patient_id, slot |-> picked] IN
             \/ /\ appt \notin booked
                /\ booked' = booked \cup {appt}
                /\ created' = TRUE
             \/ UNCHANGED <<booked, created>>
          /\ UNCHANGED <<outcome, uiFailed>>
       \/ /\ CreateFail
          /\ UNCHANGED <<submits, booked, created>>
    /\ UNCHANGED <<globals, env, recorded, retriever, calc, tasks, started, launched,
                   runningDrivers, openBrowsers, url, session, op, arg, page, login,
                   finder, now, appointment_datetime, calendar, clicks, picked, flash>>

\* Lines 407-416: toggle the past and future tabs, wait for the list.
CreateReloadList == CreateUiStep("c_tabs", "c_lookup")

\* format_appointment_label gives one label per instant; an entry of the
\* patient's list matches it when it is booked at that instant.
LabelListed ==
    [patient_id |-> arg.patient_id, slot |-> appointment_datetime] \in booked

\* Lines 419-427: an entry with the label is visible: click it; else return None.
CreateLookup ==
    /\ pc = "c_lookup"
    /\ \/ /\ LabelListed
          /\ pc' = "c_link"
          /\ UNCHANGED <<outcome, uiFailed>>
       \/ /\ CreateReturn(NoneVal)
          /\ UNCHANGED uiFailed
       \/ CreateFail
    /\ UNCHANGED <<globals, env, recorded, retriever, calc, tasks, world, session, op, arg,
                   page, login, finder, sched>>

\* Lines 438-447: the record returned.
AppointmentData ==
    [kind |-> "appointment",
     appointment_date |-> arg.date_str,
     appointment_time |-> arg.time_str]

\* Lines 432-449: read the video-call link and return the record.
CreateExtract ==
    /\ pc = "c_link"
    /\ \/ /\ CreateReturn(AppointmentData)
          /\ recorded' = recorded \cup {arg}
          /\ UNCHANGED uiFailed
       \/ /\ CreateFail
          /\ UNCHANGED recorded
    /\ UNCHANGED <<globals, env, retriever, calc, tasks, world, session, op, arg, page,
                   login, finder, sched>>

(***************************************************************************)
(* The action adapters (adapters/pipecat/healthie.py)                      *)
(***************************************************************************)

\* _build_error_payload: a failure payload with its error code.
ErrorPayload(code) == [success |-> FALSE, error_code |-> code]

\* A success payload (its body is the patient or the appointment).
SuccessPayload(body) == [success |-> TRUE, error_code |-> None, body |-> body]

\* The action is over: its locals and those of the call it awaited are gone.
EndAction ==
    /\ pc' = "idle"
    /\ arg' = NoneVal
    /\ FreshLocals
    /\ UNCHANGED <<globals, env, recorded, retriever, calc, tasks, world, session, op,
                   login, ret, exc>>

\* The error codes the two actions pass to _build_error_payload.
ErrorCodes ==
    {"invalid_input", "patient_not_found", "patient_id_not_found",
     "appointment_creation_failed", "unexpected_error"}

\* An adapter that does not look at the identifier of the record found.
FindPatientDirectResultNoIdCheck(patient) ==
    IF patient = NoneVal
    THEN ErrorPayload("patient_not_found")
    ELSE SuccessPayload([id |-> patient.patient_id, name |-> patient.name])

\* find_patient_direct, lines 99-115: the payload for the value returned.
FindPatientDirectResult(patient) ==
    IF patient = NoneVal
    THEN ErrorPayload("patient_not_found")
    ELSE IF patient.patient_id = ""
         THEN ErrorPayload("patient_id_not_found")
         ELSE SuccessPayload([id |-> patient.patient_id, name |-> patient.name])

\* Lines 99-115: find_patient returned; deliver the payload.
FindPatientDirectDeliver ==
    /\ pc = "fd_result"
    /\ payloads' = Append(payloads, FindPatientDirectResult(ret))
    /\ escaped' = escaped
    /\ EndAction

\* The except clauses of find_patient_direct, lines 116-117: ValueError only.
FindPatientDirectHandles(e) == e = "ValueError"

\* Lines 116-117: an exception left find_patient: a ValueError is answered
\* with invalid_input, any other exception leaves the action.
FindPatientDirectExcept ==
    /\ pc = "fd_except"
    /\ IF FindPatientDirectHandles(exc)
       THEN /\ payloads' = Append(payloads, ErrorPayload("invalid_input"))
            /\ escaped' = None
       ELSE /\ payloads' = payloads
            /\ escaped' = exc
    /\ EndAction

\* create_appointment_direct, lines 141-148: the payload for the value returned.
CreateAppointmentDirectResult(appointment) ==
    IF appointment = NoneVal
    THEN ErrorPayload("appointment_creation_failed")
    ELSE SuccessPayload(appointment)

\* Lines 141-148: create_appointment returned; deliver the payload.
CreateAppointmentDirectDeliver ==
    /\ pc = "cd_result"
    /\ payloads' = Append(payloads, CreateAppointmentDirectResult(ret))
    /\ escaped' = escaped
    /\ EndAction

\* Lines 149-152: except ValueError, then except Exception: every exception
\* is answered with a payload.
CreateAppointmentDirectExcept ==
    /\ pc = "cd_except"
    /\ payloads' = Append(payloads,
            ErrorPayload(IF exc = "ValueError" THEN "invalid_input" ELSE "unexpected_error"))
    /\ escaped' = None
    /\ EndAction

(***************************************************************************)
(* close_healthie_session                                                  *)
(***************************************************************************)

\* A teardown that closes the browser and forgets the driver without stopping it.
CloseWithoutDriverStop ==
    /\ pc = "idle"
    /\ openBrowsers' = IF _browser # Null THEN openBrowsers \ {_browser} ELSE openBrowsers
    /\ _browser' = Null
    /\ _playwright' = Null
    /\ _page' = Null
    /\ url' = [p \in DOMAIN url |-> "none"]
    /\ session' = Null
    /\ UNCHANGED <<env, recorded, retriever, calc, tasks, started, launched,
                   runningDrivers, booked, pc, op, arg, page, login, uiFailed, finder,
                   sched, outcome>>

\* Lines 456-468: close the held browser, stop the held driver, null all three.
CloseHealthieSession ==
    /\ pc = "idle"
    /\ openBrowsers' = IF _browser # Null THEN openBrowsers \ {_browser} ELSE openBrowsers
    /\ _browser' = Null
    /\ runningDrivers' = IF _playwright # Null THEN runningDrivers \ {_playwright}
                         ELSE runningDrivers
    /\ _playwright' = Null
    /\ _page' = Null
    /\ url' = [p \in DOMAIN url |-> "none"]
    /\ session' = Null
    /\ UNCHANGED <<env, recorded, retriever, calc, tasks, started, launched, booked, pc,
                   op, arg, page, login, uiFailed, finder, sched, outcome>>

(***************************************************************************)
(* get_otp (utils/get_verification_code.py)                                *)
(*                                                                         *)
(* The retriever is a blocking function of its own: it is explored under   *)
(* GetOtpSpec, one call per run, with the mailbox as its environment.      *)
(* Under Spec, login_to_healthie sees only how the call ends (LoginGetOtp).*)
(***************************************************************************)

\* Bound: how many messages the mailbox receives in one run.
MaxMail == 2

\* Bound: the longest timeout a caller passes, in polling intervals of 0.5 s.
MaxTimeout == 2

\* A body is a sequence of tokens: a run of decimal digits, whether a '#'
\* stands right before it, and the markup element that wraps it ("none" in
\* plain text).
PlainText == <<[digits |-> <<8, 4, 2, 9, 1, 3>>, hash |-> FALSE, tag |-> "none"]>>
ColorText ==
    <<[digits |-> <<3, 3, 0, 0, 9, 9>>, hash |-> TRUE, tag |-> "none"],
      [digits |-> <<8, 4, 2, 9, 1>>, hash |-> FALSE, tag |-> "none"]>>
MarkupText ==
    <<[digits |-> <<3, 3, 0, 0, 9, 9>>, hash |-> TRUE, tag |-> "none"],
      [digits |-> <<1, 2, 3, 4, 5, 6>>, hash |-> FALSE, tag |-> "td"],
      [digits |-> <<0, 0, 7, 7, 0, 1>>, hash |-> FALSE, tag |-> "h2"]>>

\* The messages the mailbox can receive: a single-part plain message with a
\* code, a single-part message with a colour code and a five-digit number,
\* and a multipart message whose markup part carries the code in a heading.
Bodies ==
    {[multipart |-> FALSE,
      parts |-> <<[content_type |-> "text/plain", text |-> PlainText]>>],
     [multipart |-> FALSE,
      parts |-> <<[content_type |-> "text/plain", text |-> ColorText]>>],
     [multipart |-> TRUE,
      parts |-> <<[content_type |-> "text/plain", text |-> ColorText],
                  [content_type |-> "text/html", text |-> MarkupText]>>]}
Subjects == {SignInSubject, "Welcome to Healthie"}
Messages == [subject : Subjects, body : Bodies, seen : {FALSE}]

\* The first element of a sequence, <<>> for the empty one (match[0] under
\* "if match", or a failed re.search).
FirstOr(matches) == IF matches = <<>> THEN <<>> ELSE matches[1].digits

\* _digits_in_text: re.findall(r"(?<!#)\b\d{6}\b"): the runs of exactly six
\* digits that no '#' precedes, in order.
_digits_in_text(text) ==
    SelectSeq(text, LAMBDA t : Len(t.digits) = 6 /\ ~t.hash)

\* Lines 45-55: the code of one part of a multipart message.  Plain text:
\* the first run _digits_in_text finds.  Markup: the first six-digit run
\* wrapped in a heading, else the first one wrapped in any element.
PartOtp(part) ==
    IF part.content_type = "text/plain"
    THEN FirstOr(_digits_in_text(part.text))
    ELSE LET heading == SelectSeq(part.text,
                            LAMBDA t : Len(t.digits) = 6 /\ t.tag = "h2")
             wrapped == SelectSeq(part.text,
                            LAMBDA t : Len(t.digits) = 6 /\ t.tag # "none")
         IN  IF heading # <<>> THEN FirstOr(heading) ELSE FirstOr(wrapped)

\* extract_otp_from_message: the code of the first part that has one (a
\* single-part message is searched as plain text); <<>> stands for None.
extract_otp_from_message(m) ==
    IF m.multipart
    THEN LET found == SelectSeq(m.parts, LAMBDA part : PartOtp(part) # <<>>)
         IN  IF found = <<>> THEN <<>> ELSE PartOtp(found[1])
    ELSE FirstOr(_digits_in_text(m.parts[1].text))

\* Everything but the retriever's own state.
engine ==
    <<globals, env, recorded, world, session, pc, op, arg, page, login, uiFailed, finder,
      sched, outcome>>

\* get_otp(timeout, subject_filter=...) is called (sender_filter is left None
\* by every caller).
CallGetOtp ==
    /\ gpc = "idle"
    /\ timeout' \in 1..MaxTimeout
    /\ subject_filter' \in {None, SignInSubject}
    /\ gpc' = "connect"
    /\ UNCHANGED <<engine, calc, tasks, mail, inbox, elapsed, mail_ids, msg, otp>>

\* An exception leaves get_otp: no except or finally clause is in its way,
\* so the connection stays as it is.
GetOtpRaise(e) ==
    /\ otp' = [kind |-> e, code |-> <<>>]
    /\ gpc' = "done"

\* Line 86: imaplib.IMAP4_SSL(IMAP_HOST).
GetOtpConnect ==
    /\ gpc = "connect"
    /\ \/ /\ mail' = "connected"
          /\ gpc' = "login"
          /\ UNCHANGED otp
       \/ /\ GetOtpRaise("OSError")
          /\ UNCHANGED mail
    /\ UNCHANGED <<engine, calc, tasks, inbox, timeout, subject_filter, elapsed, mail_ids,
                   msg>>

\* Line 87: mail.login(EMAIL_ACCOUNT, EMAIL_PASSWORD); with a credential
\* unset, or refused by the server, it raises.
GetOtpLogin ==
    /\ gpc = "login"
    /\ IF EMAIL_ACCOUNT = None \/ EMAIL_PASSWORD = None
       THEN /\ GetOtpRaise("MailLoginError")
            /\ UNCHANGED mail
       ELSE \/ /\ mail' = "authenticated"
               /\ gpc' = "select"
               /\ UNCHANGED otp
            \/ /\ GetOtpRaise("imaplib.error")
               /\ UNCHANGED mail
    /\ UNCHANGED <<engine, calc, tasks, inbox, timeout, subject_filter, elapsed, mail_ids,
                   msg>>

\* Lines 88-90: mail.select("INBOX"); start_time = time.time().
GetOtpSelect ==
    /\ gpc = "select"
    /\ \/ /\ mail' = "selected"
          /\ elapsed' = 0
          /\ gpc' = "loop"
          /\ UNCHANGED otp
       \/ /\ GetOtpRaise("imaplib.abort")
          /\ UNCHANGED <<mail, elapsed>>
    /\ UNCHANGED <<engine, calc, tasks, inbox, timeout, subject_filter, mail_ids, msg>>

\* Line 92: while time.time() - start_time < timeout.
GetOtpLoop ==
    /\ gpc = "loop"
    /\ gpc' = IF elapsed < timeout THEN "search" ELSE "timeout"
    /\ UNCHANGED <<engine, calc, tasks, mail, inbox, timeout, subject_filter, elapsed,
                   mail_ids, msg, otp>>

\* The criteria of lines 93-99: UNSEEN, and SUBJECT when a filter is given.
Matching(i) ==
    /\ ~inbox[i].seen
    /\ (subject_filter # None => inbox[i].subject = subject_filter)

\* Lines 101-106: mail.search: the ids of the matching messages in mailbox
\* order; a status other than OK, or no id, goes to the sleep.
GetOtpSearch ==
    /\ gpc = "search"
    /\ \/ /\ mail_ids' = SelectSeq([i \in 1..Len(inbox) |-> i], Matching)
          /\ gpc' = IF mail_ids' = <<>> THEN "sleep" ELSE "fetch"
          /\ UNCHANGED otp
       \/ /\ mail_ids' = <<>>
          /\ gpc' = "sleep"
          /\ UNCHANGED otp
       \/ /\ GetOtpRaise("imaplib.abort")
          /\ UNCHANGED mail_ids
    /\ UNCHANGED <<engine, calc, tasks, mail, inbox, timeout, subject_filter, elapsed, msg>>

\* A retriever that fetches the first id of the search result.
GetOtpFetchFirst ==
    /\ gpc = "fetch"
    /\ \/ /\ msg' = inbox[mail_ids[1]]
          /\ inbox' = [inbox EXCEPT ![mail_ids[1]].seen = TRUE]
          /\ gpc' = "extract"
          /\ UNCHANGED otp
       \/ /\ gpc' = "sleep"
          /\ UNCHANGED <<msg, inbox, otp>>
       \/ /\ GetOtpRaise("imaplib.abort")
          /\ UNCHANGED <<msg, inbox>>
    /\ UNCHANGED <<engine, calc, tasks, mail, timeout, subject_filter, elapsed, mail_ids>>

\* Lines 107-112: latest_id = mail_ids[-1]; mail.fetch(latest_id, "(RFC822)"),
\* which marks the message seen; a status other than OK goes to the sleep.
GetOtpFetch ==
    /\ gpc = "fetch"
    /\ \/ /\ msg' = inbox[mail_ids[Len(mail_ids)]]
          /\ inbox' = [inbox EXCEPT ![mail_ids[Len(mail_ids)]].seen = TRUE]
          /\ gpc' = "extract"
          /\ UNCHANGED otp
       \/ /\ gpc' = "sleep"
          /\ UNCHANGED <<msg, inbox, otp>>
       \/ /\ GetOtpRaise("imaplib.abort")
          /\ UNCHANGED <<msg, inbox>>
    /\ UNCHANGED <<engine, calc, tasks, mail, timeout, subject_filter, elapsed, mail_ids>>

\* Lines 117-120: otp = extract_otp_from_message(msg); a code is returned
\* after mail.logout(), no code goes to the sleep.
GetOtpExtract ==
    /\ gpc = "extract"
    /\ LET code == extract_otp_from_message(msg.body) IN
       IF code # <<>>
       THEN /\ mail' = "logged_out"
            /\ otp' = [kind |-> "code", code |-> code]
            /\ gpc' = "done"
       ELSE /\ gpc' = "sleep"
            /\ UNCHANGED <<mail, otp>>
    /\ UNCHANGED <<engine, calc, tasks, inbox, timeout, subject_filter, elapsed, mail_ids,
                   msg>>

\* Line 122: time.sleep(0.5).
GetOtpSleep ==
    /\ gpc = "sleep"
    /\ elapsed' = elapsed + 1
    /\ gpc' = "loop"
    /\ UNCHANGED <<engine, calc, tasks, mail, inbox, timeout, subject_filter, mail_ids,
                   msg, otp>>

\* Lines 124-125: mail.logout(); raise TimeoutError.
GetOtpTimeout ==
    /\ gpc = "timeout"
    /\ mail' = "logged_out"
    /\ otp' = [kind |-> "TimeoutError", code |-> <<>>]
    /\ gpc' = "done"
    /\ UNCHANGED <<engine, calc, tasks, inbox, timeout, subject_filter, elapsed, mail_ids,
                   msg>>

\* The mailbox receives a message while a call is in progress.
MailArrives ==
    /\ gpc \notin {"idle", "done"}
    /\ Len(inbox) < MaxMail
    /\ \E m \in Messages : inbox' = Append(inbox, m)
    /\ UNCHANGED <<engine, calc, tasks, mail, timeout, subject_filter, elapsed, gpc,
                   mail_ids, msg, otp>>

\* One call of get_otp with the portal credentials out of the picture.
(***************************************************************************)
(* calculate_diff_months on its own: the arguments are drawn in the        *)
(* initial state, the one action is the call.                              *)
(***************************************************************************)

\* Bound: how many years after the first the arguments range over.
MaxYearSpan == 2

\* The instants the arguments of calculate_diff_months are drawn from.
DiffInstants ==
    {<<y, m, d, t>> : y \in 2026..(2026 + MaxYearSpan), m \in {1, 6, 12},
                      d \in {1, 15}, t \in {0, 600}}

\* A call of calculate_diff_months about to run, with any two instants.
DiffInit ==
    /\ Loaded
    /\ HEALTHIE_EMAIL = "set" /\ HEALTHIE_PASSWORD = "set"
    /\ EMAIL_ACCOUNT = "set" /\ EMAIL_PASSWORD = "set"
    /\ diff_now \in DiffInstants /\ diff_target \in DiffInstants
    /\ total_months = 0 /\ dpc = "called"

\* The call: lines 52-58.
CalculateDiffMonths ==
    /\ dpc = "called"
    /\ total_months' = calculate_diff_months(diff_now, diff_target)
    /\ dpc' = "returned"
    /\ UNCHANGED <<engine, retriever, tasks, diff_now, diff_target>>

DiffNext == CalculateDiffMonths

DiffSpec == DiffInit /\ [][DiffNext]_vars

(***************************************************************************)
(* login_to_healthie called by several coroutines of one event loop, as    *)
(* when two actions of the voice front-end are in flight together.  Each   *)
(* action is the code of one call between two awaits; the module's         *)
(* handles are shared, "context" and the loop index are locals.            *)
(***************************************************************************)

\* How many inputs the passcode is typed into (otc-input-0 to otc-input-5).
OtpLength == 6

\* The calls start with the credentials set and no session.
CoInit ==
    /\ Loaded
    /\ HEALTHIE_EMAIL = "set" /\ HEALTHIE_PASSWORD = "set"
    /\ EMAIL_ACCOUNT = "set" /\ EMAIL_PASSWORD = "set"
    /\ diff_now = <<>> /\ diff_target = <<>> /\ total_months = 0 /\ dpc = "idle"

\* What every step of a call leaves alone.
CoFrame == UNCHANGED <<env, recorded, retriever, calc, url, booked, session, pc, op, arg,
                       page, login, uiFailed, finder, sched, outcome>>

\* An exception leaves login_to_healthie: nothing is closed or reset.
CoRaise(c) == tpc' = [tpc EXCEPT ![c] = "failed"]

\* Lines 60-73: the credentials are set; async_playwright().start() is awaited.
CoCall(c) ==
    /\ tpc[c] = "idle"
    /\ tpc' = [tpc EXCEPT ![c] = "l_start"]
    /\ UNCHANGED <<globals, world, own, stepsOn, got, context, filled, pages>>
    /\ CoFrame

\* Lines 73-74: the driver is stored in _playwright; the launch of a browser
\* by the driver _playwright now holds is awaited.
CoStartPlaywright(c) ==
    /\ tpc[c] = "l_start"
    /\ started' = started + 1
    /\ _playwright' = started + 1
    /\ runningDrivers' = runningDrivers \cup {started + 1}
    /\ tpc' = [tpc EXCEPT ![c] = "l_launch"]
    /\ UNCHANGED <<_browser, _page, launched, openBrowsers, own, stepsOn, got, context,
                   filled, pages>>
    /\ CoFrame

\* Lines 74-77: the browser is stored in _browser; new_context() of the
\* browser _browser now holds is awaited, then new_page() of that context,
\* which is a local.
CoLaunchBrowser(c) ==
    /\ tpc[c] = "l_launch"
    /\ launched' = launched + 1
    /\ _browser' = launched + 1
    /\ openBrowsers' = openBrowsers \cup {launched + 1}
    /\ context' = [context EXCEPT ![c] = launched + 1]
    /\ tpc' = [tpc EXCEPT ![c] = "l_page"]
    /\ UNCHANGED <<_page, _playwright, started, runningDrivers, own, stepsOn, got, filled,
                   pages>>
    /\ CoFrame

\* Lines 77-80: the page opened in the local context is stored in _page;
\* goto() of the page _page now holds is awaited.
CoNewPage(c) ==
    /\ tpc[c] = "l_page"
    /\ pages' = pages + 1
    /\ own' = [own EXCEPT ![c] = pages + 1]
    /\ _page' = pages + 1
    /\ stepsOn' = [stepsOn EXCEPT ![c] = @ \cup {pages + 1}]
    /\ tpc' = [tpc EXCEPT ![c] = "l_goto"]
    /\ UNCHANGED <<_browser, _playwright, world, got, context, filled>>
    /\ CoFrame

\* A login step: the goto or the wait before it is over (or has raised);
\* the next locator is made on the page _page now holds and awaited.
CoUiStep(c, at, next) ==
    /\ tpc[c] = at
    /\ \/ /\ tpc' = [tpc EXCEPT ![c] = next]
          /\ stepsOn' = [stepsOn EXCEPT ![c] = @ \cup {_page}]
       \/ /\ CoRaise(c)
          /\ UNCHANGED stepsOn
    /\ UNCHANGED <<globals, world, own, got, context, filled, pages>>
    /\ CoFrame

\* Lines 80-89: after the goto, the identifier input.
CoFillEmail(c) == CoUiStep(c, "l_goto", "l_email")

\* Lines 91-93: the first "Log In" button.
CoSubmitEmail(c) == CoUiStep(c, "l_email", "l_submit1")

\* Lines 96-98: the password input.
CoFillPassword(c) == CoUiStep(c, "l_submit1", "l_password")

\* Lines 101-103: the second "Log In" button.
CoSubmitPassword(c) == CoUiStep(c, "l_password", "l_submit2")

\* Lines 105-106: the wait for the continue control.
CoWaitContinue(c) == CoUiStep(c, "l_submit2", "l_continue")

\* Lines 106-108, 116: the wait is over (a timeout raises); is_visible() and,
\* when true, the click are on the same locator; when false the sleep before
\* get_otp is awaited.
CoContinue(c) ==
    /\ tpc[c] = "l_continue"
    /\ \/ tpc' = [tpc EXCEPT ![c] = "l_clicked"]
       \/ tpc' = [tpc EXCEPT ![c] = "l_otp"]
       \/ CoRaise(c)
    /\ UNCHANGED <<globals, world, own, stepsOn, got, context, filled, pages>>
    /\ CoFrame

\* Line 109: after the click, return _page.
CoReturnClicked(c) ==
    /\ tpc[c] = "l_clicked"
    /\ got' = [got EXCEPT ![c] = _page]
    /\ tpc' = [tpc EXCEPT ![c] = "done"]
    /\ UNCHANGED <<globals, world, own, stepsOn, context, filled, pages>>
    /\ CoFrame

\* Lines 117-121: get_otp (it blocks: no other call runs) returns a code or
\* raises; the fill of otc-input-0 on the page _page now holds is awaited.
CoGetOtp(c) ==
    /\ tpc[c] = "l_otp"
    /\ \/ /\ tpc' = [tpc EXCEPT ![c] = "l_digits"]
          /\ filled' = [filled EXCEPT ![c] = 1]
          /\ stepsOn' = [stepsOn EXCEPT ![c] = @ \cup {_page}]
       \/ /\ CoRaise(c)
          /\ UNCHANGED <<filled, stepsOn>>
    /\ UNCHANGED <<globals, world, own, got, context, pages>>
    /\ CoFrame

\* Lines 120-121: the fill of one input is over (or has raised); the fill of
\* the next, on the page _page now holds, is awaited.
CoFillDigit(c) ==
    /\ tpc[c] = "l_digits"
    /\ filled[c] < OtpLength
    /\ \/ /\ filled' = [filled EXCEPT ![c] = @ + 1]
          /\ stepsOn' = [stepsOn EXCEPT ![c] = @ \cup {_page}]
          /\ UNCHANGED tpc
       \/ /\ CoRaise(c)
          /\ UNCHANGED <<filled, stepsOn>>
    /\ UNCHANGED <<globals, world, own, got, context, pages>>
    /\ CoFrame

\* Lines 124-129: the last fill is over; "sign_in" in _page.url raises, else
\* return _page.
CoCheckUrl(c) ==
    /\ tpc[c] = "l_digits"
    /\ filled[c] = OtpLength
    /\ \/ /\ got' = [got EXCEPT ![c] = _page]
          /\ tpc' = [tpc EXCEPT ![c] = "done"]
       \/ /\ CoRaise(c)
          /\ UNCHANGED got
    /\ UNCHANGED <<globals, world, own, stepsOn, context, filled, pages>>
    /\ CoFrame

CoNext ==
    \E c \in Tasks :
        \/ CoCall(c)
        \/ CoStartPlaywright(c)
        \/ CoLaunchBrowser(c)
        \/ CoNewPage(c)
        \/ CoFillEmail(c)
        \/ CoSubmitEmail(c)
        \/ CoFillPassword(c)
        \/ CoSubmitPassword(c)
        \/ CoWaitContinue(c)
        \/ CoContinue(c)
        \/ CoReturnClicked(c)
        \/ CoGetOtp(c)
        \/ CoFillDigit(c)
        \/ CoCheckUrl(c)

CoSpec == CoInit /\ [][CoNext]_vars

GetOtpInit ==
    /\ Init
    /\ HEALTHIE_EMAIL = "set" /\ HEALTHIE_PASSWORD = "set"

GetOtpNext ==
    \/ CallGetOtp
    \/ GetOtpConnect
    \/ GetOtpLogin
    \/ GetOtpSelect
    \/ GetOtpLoop
    \/ GetOtpSearch
    \/ GetOtpFetch
    \/ GetOtpExtract
    \/ GetOtpSleep
    \/ GetOtpTimeout
    \/ MailArrives

GetOtpSpec == GetOtpInit /\ [][GetOtpNext]_vars

Next ==
    \/ CallLoginToHealthie
    \/ CallFindPatientDirect
    \/ CallCreateAppointmentDirect
    \/ LoginCheckCredentials
    \/ LoginStartPlaywright
    \/ LoginLaunchBrowser
    \/ LoginNewPage
    \/ LoginGoto
    \/ LoginFillEmail
    \/ LoginSubmitEmail
    \/ LoginFillPassword
    \/ LoginSubmitPassword
    \/ LoginWaitContinue
    \/ LoginContinue
    \/ LoginGetOtp
    \/ LoginFillDigit
    \/ LoginCheckUrl
    \/ FindClients
    \/ FindSearch
    \/ FindNoResults
    \/ FindWaitTable
    \/ FindCountRows
    \/ FindOpenFirst
    \/ FindOpenSection
    \/ FindExtract
    \/ FindPatientDirectDeliver
    \/ FindPatientDirectExcept
    \/ CreateSearch
    \/ CreateViewProfile
    \/ CreateOpenDialog
    \/ CreateSelectType
    \/ CreateValidate
    \/ CreatePickTime
    \/ CreateOpenCalendar
    \/ CreateNextMonth
    \/ CreatePickDay
    \/ CreateInspectFlash
    \/ CreateSubmit
    \/ CreateReloadList
    \/ CreateLookup
    \/ CreateExtract
    \/ CreateAppointmentDirectDeliver
    \/ CreateAppointmentDirectExcept
    \/ CloseHealthieSession

Spec == Init /\ [][Next]_vars

(***************************************************************************)
(* Properties                                                              *)
(***************************************************************************)

\* The positions of login_to_healthie after its credentials check: the
\* driver start, the browser launch and every sign-in step.
LoginStepPcs ==
    {"l_start", "l_launch", "l_page", "l_goto", "l_email", "l_submit1", "l_password",
     "l_submit2", "l_continue", "l_isvisible", "l_otp", "l_digits"}

\* The entry points that are actions of the voice front-end.
ActionOps == {"find_patient_direct", "create_appointment_direct"}

\* No session: the three handles are None.
NoSession == _browser = Null /\ _page = Null /\ _playwright = Null

\* C1: once login_to_healthie has returned a session and close_healthie_session
\* has not run since, no later step launches a browser, starts a driver or
\* enters a login step, and a login that returns hands out the same session.
C1_IdempotentAcquisition ==
    [][session # Null =>
            /\ launched' = launched
            /\ started' = started
            /\ pc' \notin LoginStepPcs
            /\ session' \in {session, Null}]_vars

\* C2: at most one browser that was launched and not yet closed exists.
C2_AtMostOneBrowser == Cardinality(openBrowsers) <= 1

\* C3: close_healthie_session leaves the three handles None, with the held
\* browser closed and the held driver stopped and nothing else closed or
\* stopped; with no session it changes nothing (so a second call in a row
\* changes nothing).
C3_ReleaseResetsSession ==
    [][CloseHealthieSession =>
            /\ _browser' = Null /\ _page' = Null /\ _playwright' = Null
            /\ openBrowsers' = openBrowsers \ {_browser}
            /\ runningDrivers' = runningDrivers \ {_playwright}
            /\ session' = Null
            /\ (NoSession => UNCHANGED vars)]_vars

\* C3 witness: a browser was launched, and after the close nothing is held,
\* open or running.
C3_Witness ==
    /\ pc = "idle"
    /\ launched >= 1
    /\ NoSession
    /\ openBrowsers = {} /\ runningDrivers = {}

\* C4: with the portal identity or password unset or empty, a login ends with
\* ValueError at the credentials check: no driver is started, no browser is
\* launched, no page is opened, and the handles stay as they were.
C4_ConfigErrorBeforeLaunch ==
    (HEALTHIE_EMAIL \in {None, ""} \/ HEALTHIE_PASSWORD \in {None, ""}) =>
        /\ started = 0 /\ launched = 0
        /\ runningDrivers = {} /\ openBrowsers = {}
        /\ \A p \in DOMAIN url : url[p] = "none"
        /\ NoSession
        /\ session = Null
        /\ pc \in {"idle", "login", "fd_except", "cd_except"}
        /\ (pc \in {"fd_except", "cd_except"} => exc = "ValueError")
        /\ (pc = "idle" /\ op = "login_to_healthie" => escaped = "ValueError")

\* C4 witness: login_to_healthie was awaited with an empty password and ended
\* with ValueError.
C4_Witness ==
    /\ HEALTHIE_EMAIL = "set" /\ HEALTHIE_PASSWORD = ""
    /\ pc = "idle" /\ op = "login_to_healthie"
    /\ escaped = "ValueError"

\* C5: with the mailbox identity or password unset, no driver is started and
\* no browser is launched, and no login goes past the credentials check.
C5_MailboxCredentialsFailFast ==
    (EMAIL_ACCOUNT = None \/ EMAIL_PASSWORD = None) =>
        /\ started = 0 /\ launched = 0
        /\ pc \notin LoginStepPcs

\* C6: when the wait for the continue control timed out, the login goes on to
\* the passcode steps: get_otp is called once with the sign-in subject and
\* the digits typed are the code's digits in order; when the control was
\* clicked, get_otp is not called.
C6_ChallengePathOnTimeout ==
    /\ (contVisible = "timeout" /\ pc # "l_otp") =>
            /\ otpCalls = 1
            /\ otpSubject = SignInSubject
            /\ Len(otc) <= Len(otp_code)
            /\ \A i \in 1..Len(otc) : otc[i] = otp_code[i]
    /\ contVisible = "clicked" => otpCalls = 0

\* C7: login_to_healthie returns a page only after it compared the page's
\* location, and never a page that still shows the sign-in screen.
C7_ReturnOnlyAfterUrlCheck ==
    (pc = "idle" /\ op = "login_to_healthie" /\ ret # NoneVal /\ session # Null) =>
        /\ urlChecked
        /\ url[ret.page] # "sign_in"

\* C8: an action that has ended delivered exactly one payload and let no
\* exception out; no action ever delivers more than one.
C8_OnePayloadNoException ==
    /\ op \in ActionOps => Len(payloads) <= 1
    /\ (op \in ActionOps /\ pc = "idle") => (Len(payloads) = 1 /\ escaped = None)

\* C9: an exception leaves find_patient or create_appointment only before
\* login_to_healthie has returned; a call in which a step failed after that
\* returns None.
C9_NoRaiseAfterAcquisition ==
    /\ pc \in {"fd_except", "cd_except"} => page = Null
    /\ (pc \in {"fd_result", "cd_result"} /\ uiFailed) => ret = NoneVal

\* C9 witness: find_patient opened a profile, a later step failed, and the
\* call returned None.
C9_Witness ==
    /\ pc = "fd_result"
    /\ page # Null
    /\ opened # NoneVal
    /\ uiFailed
    /\ ret = NoneVal

\* C10: find_patient returns a record only of a client with the given name and
\* date of birth; rows that all carry another date of birth give None.
C10_MatchesNameAndDob ==
    /\ (pc = "fd_result" /\ ret # NoneVal) =>
            /\ opened.name = arg.name
            /\ opened.date_of_birth = arg.date_of_birth
    /\ (pc = "fd_result" /\ rows # <<>>
            /\ \A i \in DOMAIN rows : rows[i].date_of_birth # arg.date_of_birth) =>
            ret = NoneVal

\* C11: find_patient returns None, with no profile opened, in each of three
\* cases: the "no results" text showed, the wait for the results table timed
\* out, or the table has zero rows.  The value returned is the same in all
\* three, and in none of them the search goes on to open a row.
C11_NotFoundCases ==
    [][/\ (pc = "f_noresults" /\ pc' = "fd_result") =>
                (ret' = NoneVal /\ opened' = NoneVal)
       /\ (pc = "f_table" /\ uiFailed') =>
                (pc' = "fd_result" /\ ret' = NoneVal /\ opened' = NoneVal)
       /\ (pc = "f_count" /\ Len(rows) = 0) =>
                (pc' = "fd_result" /\ ret' = NoneVal /\ opened' = NoneVal)]_vars

\* C11 witness: a search that showed no rows ended with None and no profile
\* opened, without any step having failed.
C11_Witness ==
    /\ pc = "fd_result"
    /\ rows = <<>>
    /\ ~uiFailed
    /\ opened = NoneVal
    /\ ret = NoneVal

\* C12: whenever a profile is open it is that of the row at index 0, and a
\* record returned carries the identifier read from that profile (which may
\* be empty), whatever the number of rows.
C12_FirstRowPolicy ==
    /\ opened # NoneVal => (rows # <<>> /\ opened = rows[1])
    /\ (pc = "fd_result" /\ ret # NoneVal) =>
            /\ rows # <<>>
            /\ opened = rows[1]
            /\ ret.patient_id \in {PatientId(rows[1]), ""}

\* C12 witness: two different rows were shown and the record returned carries
\* the identifier of the first.
C12_Witness ==
    /\ pc = "fd_result"
    /\ Len(rows) = 2
    /\ rows[1] # rows[2]
    /\ ret # NoneVal
    /\ ret.patient_id = PatientId(rows[1])

\* C13: the record a find_patient action gets carries the date of birth read
\* from the profile or, when that label is empty, the caller's date of birth
\* normalized to YYYY-MM-DD.
C13_DobFallbackNormalized ==
    (pc = "fd_result" /\ ret # NoneVal) =>
        ret.date_of_birth \in {opened.date_of_birth, normalized_dob(arg.date_of_birth)}

\* C14: every failure payload carries one of the five error codes; for a
\* value returned by find_patient, None gives patient_not_found, a record
\* with an empty identifier gives patient_id_not_found and only a record with
\* an identifier gives success; for a value returned by create_appointment,
\* None gives appointment_creation_failed and only a record gives success.
C14_ErrorCodeMapping ==
    /\ \A i \in DOMAIN payloads :
            ~payloads[i].success => payloads[i].error_code \in ErrorCodes
    /\ (pc = "idle" /\ op = "find_patient_direct" /\ exc = None) =>
            /\ Len(payloads) = 1
            /\ ret = NoneVal => payloads[1].error_code = "patient_not_found"
            /\ (ret # NoneVal /\ ret.patient_id = "") =>
                    payloads[1].error_code = "patient_id_not_found"
            /\ payloads[1].success <=> (ret # NoneVal /\ ret.patient_id # "")
    /\ (pc = "idle" /\ op = "create_appointment_direct" /\ exc = None) =>
            /\ Len(payloads) = 1
            /\ ret = NoneVal => payloads[1].error_code = "appointment_creation_failed"
            /\ payloads[1].success <=> ret # NoneVal

\* C14 witness: a find_patient action whose record has an empty identifier
\* was answered with patient_id_not_found.
C14_Witness ==
    /\ pc = "idle" /\ op = "find_patient_direct"
    /\ ret # NoneVal /\ ret.patient_id = ""
    /\ Len(payloads) = 1
    /\ payloads[1].error_code = "patient_id_not_found"

\* The positions of create_appointment after its validation: the time picker,
\* the calendar, the flash inspection, the submit and what follows it.
AfterValidatePcs ==
    {"c_time", "c_calendar", "c_months", "c_flash", "c_submit", "c_tabs", "c_lookup",
     "c_link"}

\* C15: a create_appointment whose target is strictly before the instant it
\* read returns None without operating the time picker or the calendar and
\* without clicking the dialog's primary button; a target equal to or later
\* than that instant passes the validation and goes on to the time picker.
C15_PastDateRejected ==
    /\ []((now # <<>> /\ appointment_datetime # <<>>
                /\ Before(appointment_datetime, now)) =>
            /\ pc = "cd_result"
            /\ ret = NoneVal
            /\ submits = 0 /\ ~created
            /\ calendar = <<>> /\ clicks = 0 /\ picked = <<>>)
    /\ [][(pc = "c_validate" /\ appointment_datetime' # <<>>
                /\ ~Before(appointment_datetime', now')) => pc' = "c_time"]_vars

\* C15 witness: a create_appointment for a past instant returned None.
C15_Witness ==
    /\ pc = "cd_result"
    /\ now # <<>> /\ appointment_datetime # <<>>
    /\ Before(appointment_datetime, now)
    /\ ret = NoneVal

C17_RecordOnlyOnCreation ==
    (pc = "cd_result" /\ ret # NoneVal) =>
        /\ created
        /\ picked = appointment_datetime
        /\ [patient_id |-> arg.patient_id, slot |-> appointment_datetime] \in booked

\* C18: once a create_appointment has returned a record, a later
\* create_appointment with the same patient, date and time returns None.
C18_SecondBookingRejected ==
    [][(pc # "cd_result" /\ pc' = "cd_result" /\ arg \in recorded) => ret' = NoneVal]_vars

\* C19: get_otp ends in one of two ways only: it returns six decimal digits
\* taken from the message it fetched, or it raises TimeoutError when the
\* elapsed time has reached the timeout; it searches the mailbox only while
\* the elapsed time is below the timeout.
C19_CodeOrTimeout ==
    /\ gpc = "done" => otp.kind \in {"code", "TimeoutError"}
    /\ otp.kind = "code" =>
            /\ Len(otp.code) = 6
            /\ \A i \in 1..6 : otp.code[i] \in 0..9
            /\ msg # NoneVal
            /\ (subject_filter # None => msg.subject = subject_filter)
            /\ otp.code = extract_otp_from_message(msg.body)
    /\ otp.kind = "TimeoutError" => elapsed >= timeout
    /\ gpc \in {"search", "fetch", "extract"} => elapsed < timeout

\* C20 as stated: the code get_otp returns is that of the first of the
\* messages its search matched.
C20_FirstMatchingMessage ==
    (gpc = "done" /\ otp.kind = "code") =>
        /\ mail_ids # <<>>
        /\ otp.code = extract_otp_from_message(inbox[mail_ids[1]].body)

\* C20 amended: of the messages its search matched, get_otp fetches the last
\* one (latest_id), and the code it returns is that message's code.
C20_LatestMatchingMessage ==
    /\ gpc = "extract" =>
            /\ mail_ids # <<>>
            /\ msg.subject = inbox[mail_ids[Len(mail_ids)]].subject
            /\ msg.body = inbox[mail_ids[Len(mail_ids)]].body
    /\ (gpc = "done" /\ otp.kind = "code") =>
            /\ mail_ids # <<>>
            /\ otp.code = extract_otp_from_message(inbox[mail_ids[Len(mail_ids)]].body)

\* C20 witness: a search matched two messages with different codes and the
\* code returned is the second one's.
C20_Witness ==
    /\ gpc = "done" /\ otp.kind = "code"
    /\ Len(mail_ids) = 2
    /\ extract_otp_from_message(inbox[mail_ids[1]].body) # <<>>
    /\ extract_otp_from_message(inbox[mail_ids[1]].body)
            # extract_otp_from_message(inbox[mail_ids[2]].body)
    /\ otp.code = extract_otp_from_message(inbox[mail_ids[2]].body)

\* C21: when the flash read at the inspection is the double-booking message,
\* create_appointment returns None and the primary button is not clicked; the
\* button is clicked at most once in a call, and only from the submit step,
\* which is entered from the inspection only.
C21_ConflictFlashAborts ==
    /\ [](flash = ConflictMessage =>
                (pc = "cd_result" /\ ret = NoneVal /\ submits = 0 /\ ~created))
    /\ [](submits <= 1)
    /\ [][/\ submits' > submits =>
                (pc = "c_submit" /\ submits = 0 /\ submits' = 1)
          /\ (pc' = "c_submit" /\ pc # "c_submit") =>
                (pc = "c_flash" /\ flash' # ConflictMessage)]_vars

\* C21 witness: the inspection read the double-booking message and the call
\* returned None without a click on the primary button.
C21_Witness ==
    /\ pc = "cd_result"
    /\ flash = ConflictMessage
    /\ ret = NoneVal
    /\ submits = 0

\* C22: when the day button is clicked, "next month" was clicked exactly
\* (target.year - now.year) * 12 + (target.month - now.month) times and the
\* date picker, opened on the month of now, shows the target's month and
\* year; the day picked is the target's.
C22_MonthClicksReachTarget ==
    [][(pc = "c_months" /\ pc' = "c_flash") =>
            /\ ~Before(appointment_datetime, now)
            /\ clicks = (appointment_datetime[1] - now[1]) * 12
                            + (appointment_datetime[2] - now[2])
            /\ calendar = <<appointment_datetime[1], appointment_datetime[2]>>
            /\ picked' = appointment_datetime]_vars

\* C22 witness: the day was picked after clicks that crossed a year's end.
C22_Witness ==
    /\ pc = "c_flash"
    /\ clicks >= 1
    /\ calendar[1] # now[1]
    /\ picked = appointment_datetime

\* C23: calculate_diff_months returns 0 whenever the target is before now,
\* and otherwise (target year - now year) * 12 + (target month - now month),
\* for every pair of instants; the result is never negative.
C23_MonthDistance ==
    dpc = "returned" =>
        /\ total_months >= 0
        /\ Before(diff_target, diff_now) => total_months = 0
        /\ ~Before(diff_target, diff_now) =>
                total_months = (diff_target[1] - diff_now[1]) * 12
                                   + (diff_target[2] - diff_now[2])

\* A target earlier than now in a later month of an earlier year: the result is 0.
C23_Witness ==
    /\ dpc = "returned" /\ total_months = 0
    /\ Before(diff_target, diff_now) /\ diff_target[2] > diff_now[2]


\* C24: the mailbox connection get_otp opened is logged out on every way the
\* call can end (a code returned, the timeout, a failure of the search or of
\* the fetch): no connection outlives the call.
C24_ConnectionClosedOnEveryExit ==
    gpc = "done" => mail \in {"none", "logged_out"}


\* The positions of a call in the order the code reaches them: the
\* credentials check and the steps of login_to_healthie, then the steps of
\* find_patient, then those of create_appointment.
StepOrder ==
    <<"login", "l_start", "l_launch", "l_page", "l_goto", "l_email", "l_submit1",
      "l_password", "l_submit2", "l_continue", "l_isvisible", "l_otp", "l_digits",
      "f_clients", "f_search", "f_noresults", "f_table", "f_count", "f_open",
      "f_section", "f_extract",
      "c_search", "c_profile", "c_add", "c_type", "c_validate", "c_time", "c_calendar",
      "c_months", "c_flash", "c_submit", "c_tabs", "c_lookup", "c_link">>

\* The positions at which a call drives the browser.
UiPcs == {StepOrder[i] : i \in DOMAIN StepOrder}

\* The place of a position in StepOrder.
Rank(p) == CHOOSE i \in DOMAIN StepOrder : StepOrder[i] = p

\* A step goes on to a later position, or is the next round of one of the two
\* loops (the next passcode digit, the next click on "next month"): no
\* position is taken twice for the same thing.
StepsOnce ==
    (pc \in UiPcs /\ pc' \in UiPcs /\ (pc' # pc \/ sched' # sched \/ login' # login)) =>
        \/ Rank(pc') > Rank(pc)
        \/ pc' = pc /\ pc = "l_digits" /\ Len(otc') > Len(otc)
        \/ pc' = pc /\ pc = "c_months" /\ clicks' > clicks

\* A call that has left the browser steps does not come back to them.
EndedStaysEnded ==
    pc \in {"fd_result", "fd_except", "cd_result", "cd_except"} => pc' \notin UiPcs

\* A wait of find_patient or create_appointment, other than the one for the
\* "No results" text, times out; or a wait of login_to_healthie does.
WaitExpires ==
    \/ ~uiFailed /\ uiFailed'
    \/ pc \in LoginStepPcs /\ exc # "TimeoutError" /\ exc' = "TimeoutError"

\* The 2 s wait for the "No results" text times out.
NoResultsWaitExpires == pc = "f_noresults" /\ pc' = "f_table"

\* C25: no UI step is attempted more than once within one call, and the
\* expiry of any visibility wait ends the call: after a wait has timed out
\* the call performs no further UI step.
C25_AnyExpiryEndsCall ==
    [][/\ StepsOnce
       /\ EndedStaysEnded
       /\ (WaitExpires \/ NoResultsWaitExpires) => pc' \notin UiPcs]_vars

\* C25 as the code has it: no UI step is attempted more than once within
\* one call, and the expiry of any visibility wait except the short wait for
\* the "No results" text of find_patient ends the call; after the "No
\* results" wait has timed out the call goes on to the wait for the table.
C25_ExpiryEndsCallButNoResults ==
    [][/\ StepsOnce
       /\ EndedStaysEnded
       /\ WaitExpires => pc' \notin UiPcs
       /\ NoResultsWaitExpires => pc' = "f_table"]_vars

\* find_patient has returned None because the wait for the table timed out,
\* after the wait for the "No results" text had timed out too.
C25_Witness ==
    /\ pc = "fd_result" /\ op = "find_patient_direct"
    /\ uiFailed /\ ret = NoneVal /\ rows # <<>> /\ opened = NoneVal


\* C26: when login_to_healthie fails after it launched a browser, no browser
\* is left open and the module's handles do not refer to an unauthenticated
\* page: between calls, a _page that is not None is the page of a login that
\* completed, and the browser launched last, if it is open, is that login's.
C26_FailedLoginLeavesNothing ==
    pc = "idle" =>
        /\ _page # Null => _page = session
        /\ launched \in openBrowsers => session = launched

\* C27: when two login_to_healthie calls interleave at their awaits, every
\* login step of each call is performed on the page that call opened, and
\* the page returned to each caller is the page its login steps were on.
C27_EachCallOnItsOwnPage ==
    \A c \in Tasks :
        /\ stepsOn[c] \subseteq {own[c]}
        /\ tpc[c] = "done" => got[c] = own[c]

====
